---- MODULE Spec2Model ----
(***************************************************************************)
(* Flight simulator (src/flight-sim/src/main.rs): Plane::update,           *)
(* apply_brake, InputState::gather, update_camera and the game loop of     *)
(* main.                                                                   *)
(*                                                                         *)
(* Number formats.  The program computes in f32; the model computes in     *)
(* fixed point, every product rounded to the nearest unit (square roots    *)
(* and the quotients of normalize are rounded down):                       *)
(*   - lengths, speeds, accelerations and coefficients: hundredths         *)
(*     (Centi units per 1.0);                                              *)
(*   - quaternion and unit-vector components, angles in radians:           *)
(*     millionths (Micro units per 1.0);                                   *)
(*   - times: ticks, TicksPerSec ticks per second, so that 1/200 s and     *)
(*     1/30 s are whole numbers of ticks;                                  *)
(*   - throttle: ThrottleUnit units per 1.0, so that THROTTLE_STEP * dt    *)
(*     is a whole number of units for every whole number of ticks.         *)
(* Magnitudes stay below 2^31 in every reachable state of the bounded      *)
(* specifications; f32 infinities and NaN are outside the model.           *)
(***************************************************************************)
EXTENDS Integers, Sequences, FiniteSets, TLC

\* ------------------------------------------------------------ number formats

Centi == 100
Micro == 1000000
\* Micro = Kilo * Kilo: products of two Micro-scaled numbers are formed in halves.
Kilo == 1000
TicksPerSec == 600
ThrottleUnit == 1200

Abs(a) == IF a < 0 THEN -a ELSE a
Max(a, b) == IF a >= b THEN a ELSE b
Min(a, b) == IF a <= b THEN a ELSE b

\* f32::clamp(self, lo, hi)
Clamp(a, lo, hi) == IF a < lo THEN lo ELSE IF a > hi THEN hi ELSE a

\* n / d to the nearest integer (d > 0 and even).
RoundDiv(n, d) == (n + d \div 2) \div d

\* a * b / Centi to the nearest unit, without forming a * b.
MulCenti(a, b) ==
    LET a1 == a \div Centi
        a0 == a % Centi
    IN a1 * b + RoundDiv(a0 * b, Centi)

\* a * b / Micro to the nearest unit, without forming a * b.
MulMicro(a, b) ==
    LET a1 == a \div Kilo
        a0 == a % Kilo
        b1 == b \div Kilo
        b0 == b % Kilo
    IN a1 * b1 + (a1 * b0 + a0 * b1 + (a0 * b0 + Micro \div 2) \div Kilo) \div Kilo

\* a * Micro / b (b > 0), rounded down, by long division.
DivMicro(a, b) ==
    LET q0 == a \div b
        r0 == a % b
        q1 == (r0 * Kilo) \div b
        r1 == (r0 * Kilo) % b
        q2 == (r1 * Kilo) \div b
    IN q0 * Micro + q1 * Kilo + q2

\* x * t / TicksPerSec to the nearest unit: x times a time (or a factor) of t ticks.
MulTicks(x, t) == (x \div TicksPerSec) * t + RoundDiv((x % TicksPerSec) * t, TicksPerSec)

\* Exact squares and sums of squares, as <<hi, lo>> with value hi * Micro + lo,
\* 0 <= lo < Micro.
BigNorm(hi, lo) == <<hi + lo \div Micro, lo % Micro>>

BigSq(a) ==
    LET m == Abs(a)
        a1 == m \div Kilo
        a0 == m % Kilo
        mid == 2 * a1 * a0
    IN BigNorm(a1 * a1 + mid \div Kilo, (mid % Kilo) * Kilo + a0 * a0)

BigAdd(x, y) == BigNorm(x[1] + y[1], x[2] + y[2])

BigLeq(x, y) == x[1] < y[1] \/ (x[1] = y[1] /\ x[2] <= y[2])

BigLess(x, y) == x[1] < y[1] \/ (x[1] = y[1] /\ x[2] < y[2])

\* The largest r with r * r <= big, found bit by bit from 2^bit down.
RECURSIVE SqrtBits(_, _, _)
SqrtBits(big, r, bit) ==
    IF bit < 0 THEN r
    ELSE IF BigLeq(BigSq(r + 2 ^ bit), big)
         THEN SqrtBits(big, r + 2 ^ bit, bit - 1)
         ELSE SqrtBits(big, r, bit - 1)

\* sqrt, rounded down; the argument is below 2^42.
BigSqrt(big) == SqrtBits(big, 0, 20)

\* ------------------------------------------------------- Vec3 and Quat (glam)

Vec3(x, y, z) == [x |-> x, y |-> y, z |-> z]

Quat(x, y, z, w) == [x |-> x, y |-> y, z |-> z, w |-> w]

VAdd(a, b) == Vec3(a.x + b.x, a.y + b.y, a.z + b.z)

VNeg(a) == Vec3(-a.x, -a.y, -a.z)

\* Vec3 * f32, the scalar in Centi units.
VScaleCenti(a, s) == Vec3(MulCenti(a.x, s), MulCenti(a.y, s), MulCenti(a.z, s))

\* Vec3 * f32, the scalar (or the vector) in Micro units.
VScaleMicro(a, s) == Vec3(MulMicro(a.x, s), MulMicro(a.y, s), MulMicro(a.z, s))

\* Vec3 * dt, and Vec3 * factor with the factor in ticks per TicksPerSec.
VScaleTicks(a, t) == Vec3(MulTicks(a.x, t), MulTicks(a.y, t), MulTicks(a.z, t))

\* Vec3::dot of a vector with a Micro-scaled one.
DotMicro(a, b) == MulMicro(a.x, b.x) + MulMicro(a.y, b.y) + MulMicro(a.z, b.z)

CrossMicro(a, b) ==
    Vec3(MulMicro(a.y, b.z) - MulMicro(a.z, b.y),
         MulMicro(a.z, b.x) - MulMicro(a.x, b.z),
         MulMicro(a.x, b.y) - MulMicro(a.y, b.x))

\* |v|^2, exact.
LengthSquared(v) == BigAdd(BigSq(v.x), BigAdd(BigSq(v.y), BigSq(v.z)))

\* Vec3::length, in the units of the components.
Length(v) == BigSqrt(LengthSquared(v))

\* Quat * Vec3: rhs*(w*w - b.b) + b*(2*(rhs.b)) + (b x rhs)*(2*w), b = (x, y, z).
QuatMulVec3(q, rhs) ==
    LET b == Vec3(q.x, q.y, q.z)
        b2 == DotMicro(b, b)
    IN VAdd(VAdd(VScaleMicro(rhs, MulMicro(q.w, q.w) - b2),
                 VScaleMicro(b, 2 * DotMicro(rhs, b))),
            VScaleMicro(CrossMicro(b, rhs), 2 * q.w))

\* Quat * Quat (Hamilton product).
QuatMul(a, b) ==
    Quat(MulMicro(a.w, b.x) + MulMicro(a.x, b.w) + MulMicro(a.y, b.z) - MulMicro(a.z, b.y),
         MulMicro(a.w, b.y) - MulMicro(a.x, b.z) + MulMicro(a.y, b.w) + MulMicro(a.z, b.x),
         MulMicro(a.w, b.z) + MulMicro(a.x, b.y) - MulMicro(a.y, b.x) + MulMicro(a.z, b.w),
         MulMicro(a.w, b.w) - MulMicro(a.x, b.x) - MulMicro(a.y, b.y) - MulMicro(a.z, b.z))

\* |q|^2, exact, in Micro * Micro units.
QuatLengthSquared(q) ==
    BigAdd(BigAdd(BigSq(q.x), BigSq(q.y)), BigAdd(BigSq(q.z), BigSq(q.w)))

\* Quat::normalize: every component divided by the length.
QuatNormalize(q) ==
    LET len == BigSqrt(QuatLengthSquared(q))
    IN Quat(DivMicro(q.x, len), DivMicro(q.y, len), DivMicro(q.z, len), DivMicro(q.w, len))

\* sin and cos of a small angle h (|h| < 0.1 rad), by the power series up to the
\* terms that reach a millionth.
Sin(h) == h - RoundDiv(MulMicro(MulMicro(h, h), h), 6)

Cos(h) ==
    LET h2 == MulMicro(h, h)
    IN Micro - RoundDiv(h2, 2) + RoundDiv(MulMicro(h2, h2), 24)

HalfAngle(a) == RoundDiv(a, 2)

FromRotationX(a) == Quat(Sin(HalfAngle(a)), 0, 0, Cos(HalfAngle(a)))

FromRotationY(a) == Quat(0, Sin(HalfAngle(a)), 0, Cos(HalfAngle(a)))

FromRotationZ(a) == Quat(0, 0, Sin(HalfAngle(a)), Cos(HalfAngle(a)))

\* Quat::from_euler(EulerRot::XYZ, a, b, c): about local X, then Y, then Z.
FromEulerXYZ(a, b, c) ==
    QuatMul(QuatMul(FromRotationX(a), FromRotationY(b)), FromRotationZ(c))

QuatIdentity == Quat(0, 0, 0, Micro)

\* ------------------------------------------------------------ the constants

GRAVITY_Y == -981
DRAG_COEFF == 8
LIFT_COEFF == 1150
THROTTLE_STEP == 50
MAX_SPEED == 13000
MIN_SPEED == 1200
ROLL_RATE == 140
PITCH_RATE == 90
YAW_RATE == 40

GRAVITY == Vec3(0, GRAVITY_Y, 0)

\* ------------------------------------------------------------------- Plane

\* Plane::new
PlaneNew ==
    [position |-> Vec3(0, 90 * Centi, 0),
     velocity |-> Vec3(0, 0, -50 * Centi),
     orientation |-> QuatIdentity,
     throttle |-> (7 * ThrottleUnit) \div 10]

\* Plane::forward, Plane::right, Plane::up: unit vectors, Micro-scaled.
Forward(orientation) == QuatMulVec3(orientation, Vec3(0, 0, -Micro))

Right(orientation) == QuatMulVec3(orientation, Vec3(Micro, 0, 0))

Up(orientation) == QuatMulVec3(orientation, Vec3(0, Micro, 0))

\* bool as i8 as f32
AsNumber(flag) == IF flag THEN 1 ELSE 0

\* Mutant of YawInput: the two keys exchanged.
YawInputSwapped(input) == AsNumber(input.yaw_right) - AsNumber(input.yaw_left)

YawInput(input) == AsNumber(input.yaw_left) - AsNumber(input.yaw_right)

PitchInput(input) == AsNumber(input.pitch_up) - AsNumber(input.pitch_down)

RollInput(input) == AsNumber(input.roll_right) - AsNumber(input.roll_left)

\* Mutant of ThrottleNext: the clamp left out.
ThrottleNextUnclamped(throttle, dt, input) ==
    throttle + (input.throttle_delta * THROTTLE_STEP * dt * ThrottleUnit)
                   \div (Centi * TicksPerSec)

\* (throttle + throttle_delta * THROTTLE_STEP * dt).clamp(0.1, 1.4)
ThrottleNext(throttle, dt, input) ==
    Clamp(throttle + (input.throttle_delta * THROTTLE_STEP * dt * ThrottleUnit)
                         \div (Centi * TicksPerSec),
          ThrottleUnit \div 10,
          (14 * ThrottleUnit) \div 10)

\* let net_force = thrust + lift + drag + gravity, for the throttle just set
NetForce(p, throttle) ==
    LET target_speed == MIN_SPEED + RoundDiv((MAX_SPEED - MIN_SPEED) * throttle, ThrottleUnit)
        forward == Forward(p.orientation)
        speed_along_forward == DotMicro(p.velocity, forward)
        thrust == VScaleCenti(VScaleMicro(forward, target_speed - speed_along_forward),
                              14 * Centi)
        speed == Max(Length(p.velocity), Centi)
        lift_dir == Up(p.orientation)
        lift == VScaleMicro(
                    VScaleCenti(VScaleCenti(VScaleMicro(lift_dir, speed), speed), LIFT_COEFF),
                    Max(Abs(forward.y), (8 * Micro) \div 100))
        drag == VScaleCenti(VScaleCenti(VNeg(p.velocity), speed), DRAG_COEFF)
        gravity == GRAVITY
        \* the statements, evaluated in the order the code runs them
        run == <<target_speed, forward, speed_along_forward, thrust, speed, lift_dir,
                 lift, drag, gravity, VAdd(VAdd(VAdd(thrust, lift), drag), gravity)>>
    IN run[10]

\* Mutant of Integrate: explicit Euler, the position advanced by the old velocity.
IntegrateOldVelocity(p, throttle, dt) ==
    [velocity |-> VAdd(p.velocity, VScaleTicks(NetForce(p, throttle), dt)),
     position |-> VAdd(p.position, VScaleTicks(p.velocity, dt))]

\* self.velocity += net_force * dt; self.position += self.velocity * dt;
\* (position and velocity before the ground clamp)
Integrate(p, throttle, dt) ==
    LET velocity == VAdd(p.velocity, VScaleTicks(NetForce(p, throttle), dt))
        run == <<velocity, VAdd(p.position, VScaleTicks(velocity, dt))>>
    IN [velocity |-> run[1], position |-> run[2]]

\* pitch_input * PITCH_RATE * dt and its like: an angle in Micro radians.
Angle(axis, rate, dt) == MulTicks(axis * rate * (Micro \div Centi), dt)

\* Mutant of OrientationNext: a first-order step (the half angles as the vector
\* part, 1 as the scalar part) and no normalize.
OrientationNextFirstOrder(orientation, dt, input) ==
    QuatMul(orientation,
            Quat(HalfAngle(Angle(PitchInput(input), PITCH_RATE, dt)),
                 HalfAngle(Angle(YawInput(input), YAW_RATE, dt)),
                 HalfAngle(Angle(RollInput(input), ROLL_RATE, dt)),
                 Micro))

\* (self.orientation * rotation_delta).normalize()
OrientationNext(orientation, dt, input) ==
    LET rotation_delta == FromEulerXYZ(Angle(PitchInput(input), PITCH_RATE, dt),
                                       Angle(YawInput(input), YAW_RATE, dt),
                                       Angle(RollInput(input), ROLL_RATE, dt))
    IN QuatNormalize(QuatMul(orientation, rotation_delta))

\* Mutant of GroundClamp: the velocity left as it is.
GroundClampPositionOnly(s) ==
    IF s.position.y < (5 * Centi) \div 2
    THEN [position |-> [s.position EXCEPT !.y = (5 * Centi) \div 2],
          velocity |-> s.velocity]
    ELSE s

\* Mutant of GroundClamp: the vertical velocity zeroed whatever its sign.
GroundClampStop(s) ==
    IF s.position.y < (5 * Centi) \div 2
    THEN [position |-> [s.position EXCEPT !.y = (5 * Centi) \div 2],
          velocity |-> [s.velocity EXCEPT !.y = 0]]
    ELSE s

\* if self.position.y < 2.5 { position.y = 2.5; velocity.y = velocity.y.max(0.0) }
GroundClamp(s) ==
    IF s.position.y < (5 * Centi) \div 2
    THEN [position |-> [s.position EXCEPT !.y = (5 * Centi) \div 2],
          velocity |-> [s.velocity EXCEPT !.y = Max(s.velocity.y, 0)]]
    ELSE s

\* Plane::update with its locals: the three control axes, the position and
\* velocity after integration (before the ground clamp), and the Plane it leaves.
UpdateLocals(p, dt, input) ==
    LET throttle == ThrottleNext(p.throttle, dt, input)
        integrated == Integrate(p, throttle, dt)
        s == GroundClamp(integrated)
    IN [yaw_input |-> YawInput(input),
        pitch_input |-> PitchInput(input),
        roll_input |-> RollInput(input),
        integrated |-> integrated,
        plane |-> [position |-> s.position,
                   velocity |-> s.velocity,
                   orientation |-> OrientationNext(p.orientation, dt, input),
                   throttle |-> throttle]]

\* Plane::update
Update(p, dt, input) == UpdateLocals(p, dt, input).plane

\* |velocity| > 1.0
FasterThanOne(velocity) == BigLess(BigSq(Centi), LengthSquared(velocity))

\* Mutant of BrakeFactor: 5% as a floor, as in clamp(0.05, 1.0).
BrakeFactorFloor(dt) == Clamp(TicksPerSec - dt * 5, (5 * TicksPerSec) \div 100, TicksPerSec)

\* (1.0 - dt * 5.0).clamp(0.0, 0.95), in ticks per TicksPerSec
BrakeFactor(dt) == Clamp(TicksPerSec - dt * 5, 0, (95 * TicksPerSec) \div 100)

\* Mutant of ApplyBrake: the comparison turned round.
ApplyBrakeBelowOne(p, dt) ==
    IF ~FasterThanOne(p.velocity)
    THEN [p EXCEPT !.velocity = VScaleTicks(p.velocity, BrakeFactor(dt))]
    ELSE p

\* apply_brake
ApplyBrake(p, dt) ==
    IF FasterThanOne(p.velocity)
    THEN [p EXCEPT !.velocity = VScaleTicks(p.velocity, BrakeFactor(dt))]
    ELSE p

\* -------------------------------------------------------------- InputState

\* InputState::gather, from the set of keys that are down
Gather(keys) ==
    LET throttle_raise == "Equal" \in keys \/ "KpAdd" \in keys
        throttle_lower == "Minus" \in keys \/ "KpSubtract" \in keys
    IN [roll_left |-> "A" \in keys \/ "Left" \in keys,
        roll_right |-> "D" \in keys \/ "Right" \in keys,
        pitch_up |-> "W" \in keys \/ "Up" \in keys,
        pitch_down |-> "S" \in keys \/ "Down" \in keys,
        yaw_left |-> "Q" \in keys,
        yaw_right |-> "E" \in keys,
        throttle_delta |-> (IF throttle_raise THEN 1 ELSE 0) - (IF throttle_lower THEN 1 ELSE 0),
        brake |-> "Space" \in keys,
        cockpit |-> "C" \in keys]

\* ------------------------------------------------------------------ camera

\* update_camera
UpdateCamera(p, input) ==
    LET forward == Forward(p.orientation)
        up == Up(p.orientation)
        chase_offset == VAdd(VAdd(VScaleMicro(VNeg(forward), 32 * Centi),
                                  VScaleMicro(up, 14 * Centi)),
                             VScaleMicro(Right(p.orientation), 3 * Centi))
    IN IF input.cockpit
       THEN [position |-> VAdd(VAdd(p.position, VScaleMicro(forward, 160)),
                               VScaleMicro(up, 40)),
             target |-> VAdd(VAdd(p.position, VScaleMicro(forward, 14 * Centi)),
                             VScaleMicro(up, 30)),
             up |-> up]
       ELSE [position |-> VAdd(p.position, chase_offset),
             target |-> VAdd(p.position, VScaleMicro(forward, 18 * Centi)),
             up |-> up]

\* the Camera3D main starts with
CameraNew ==
    [position |-> Vec3(0, 120 * Centi, 140 * Centi),
     target |-> PlaneNew.position,
     up |-> Vec3(0, Micro, 0)]

\* Mutant of ClampFrameTime: the frame time as reported.
ClampFrameTimeNone(frame_time) == frame_time

\* f32::clamp(1.0 / 200.0, 1.0 / 30.0) of the frame time
ClampFrameTime(frame_time) == Clamp(frame_time, TicksPerSec \div 200, TicksPerSec \div 30)

\* ---------------------------------------------------------------- bounds

\* Iterations of the game loop that are followed.
MaxFrames == 2

\* Calls that are followed when update and apply_brake are called directly.
MaxCalls == 1

\* Frame times the platform may report (get_frame_time), in ticks: below, inside
\* and above [1/200 s, 1/30 s].
FrameTimes == {0, 10, 600}

\* Sets of keys that may be down when the input is gathered: for every axis
\* neither key, either key and both, the aliases, the throttle keys, brake,
\* cockpit, and a combination.
KeySets ==
    { {}, {"Q"}, {"E"}, {"Q", "E"},
      {"W"}, {"Down"}, {"Up", "S"},
      {"A"}, {"Right"}, {"Left", "D"},
      {"Equal"}, {"KpSubtract"}, {"KpAdd", "Minus"},
      {"Space"}, {"C"}, {"Space", "W", "D", "Equal"} }

\* ------------------------------------------------------------------- state

VARIABLES
    plane,       \* main's `plane`
    camera,      \* main's `camera`
    pc,          \* where the loop body stands
    frame,       \* loop iterations (or direct calls) completed
    frame_time,  \* what get_frame_time returned in this iteration
    dt,          \* this iteration's `dt`
    input,       \* this iteration's `input`
    calls,       \* the calls made in this iteration: <<function, dt passed>>
    before,      \* `plane` when the iteration (or the direct call) began
    locals       \* the locals of the last Plane::update

vars == <<plane, camera, pc, frame, frame_time, dt, input, calls, before, locals>>

NoKeys == Gather({})

\* The locals before any update of the iteration.
NoLocals(p) ==
    [yaw_input |-> 0, pitch_input |-> 0, roll_input |-> 0,
     integrated |-> [position |-> p.position, velocity |-> p.velocity],
     plane |-> p]

Init ==
    /\ plane = PlaneNew
    /\ camera = CameraNew
    /\ pc = "frame_time"
    /\ frame = 0
    /\ frame_time = 0
    /\ dt = 0
    /\ input = NoKeys
    /\ calls = <<>>
    /\ before = PlaneNew
    /\ locals = NoLocals(PlaneNew)

\* let dt = get_frame_time().clamp(1.0 / 200.0, 1.0 / 30.0);
FrameTime ==
    /\ pc = "frame_time"
    /\ frame < MaxFrames
    /\ \E t \in FrameTimes :
        /\ frame_time' = t
        /\ dt' = ClampFrameTime(t)
    /\ pc' = "gather"
    /\ UNCHANGED <<plane, camera, frame, input, calls, before, locals>>

\* let input = InputState::gather();
GatherInput ==
    /\ pc = "gather"
    /\ \E keys \in KeySets : input' = Gather(keys)
    /\ pc' = "update"
    /\ UNCHANGED <<plane, camera, frame, frame_time, dt, calls, before, locals>>

\* plane.update(dt, &input);
UpdatePlane ==
    /\ pc = "update"
    /\ locals' = UpdateLocals(plane, dt, input)
    /\ plane' = locals'.plane
    /\ calls' = Append(calls, <<"update", dt>>)
    /\ pc' = "brake"
    /\ UNCHANGED <<camera, frame, frame_time, dt, input, before>>

\* Mutant of Brake: apply_brake called whether or not brake is held.
BrakeUnconditional ==
    /\ pc = "brake"
    /\ plane' = ApplyBrake(plane, dt)
    /\ calls' = Append(calls, <<"apply_brake", dt>>)
    /\ pc' = "camera"
    /\ UNCHANGED <<camera, frame, frame_time, dt, input, before, locals>>

\* if input.brake { apply_brake(&mut plane, dt); }
Brake ==
    /\ pc = "brake"
    /\ IF input.brake
       THEN /\ plane' = ApplyBrake(plane, dt)
            /\ calls' = Append(calls, <<"apply_brake", dt>>)
       ELSE UNCHANGED <<plane, calls>>
    /\ pc' = "camera"
    /\ UNCHANGED <<camera, frame, frame_time, dt, input, before, locals>>

\* update_camera(&mut camera, &plane, &input); set_camera(&camera);
Camera ==
    /\ pc = "camera"
    /\ camera' = UpdateCamera(plane, input)
    /\ calls' = Append(calls, <<"update_camera", 0>>)
    /\ pc' = "draw"
    /\ UNCHANGED <<plane, frame, frame_time, dt, input, before, locals>>

\* draw_environment(&plane); draw_hud(&plane, &input);  (they read, and draw)
Draw ==
    /\ pc = "draw"
    /\ pc' = "next_frame"
    /\ UNCHANGED <<plane, camera, frame, frame_time, dt, input, calls, before, locals>>

\* next_frame().await; and the iteration's locals go out of scope
NextFrame ==
    /\ pc = "next_frame"
    /\ pc' = "frame_time"
    /\ frame' = frame + 1
    /\ frame_time' = 0
    /\ dt' = 0
    /\ input' = NoKeys
    /\ calls' = <<>>
    /\ before' = plane
    /\ locals' = NoLocals(plane)
    /\ UNCHANGED <<plane, camera>>

Next ==
    \/ FrameTime
    \/ GatherInput
    \/ UpdatePlane
    \/ Brake
    \/ Camera
    \/ Draw
    \/ NextFrame

\* The game loop of main, from Plane::new.
Spec == Init /\ [][Next]_vars

\* ------------------------------------------ update and apply_brake, called directly

\* The dt a caller may pass to Plane::update: clamped as main clamps it.
UpdateDts == {ClampFrameTime(t) : t \in FrameTimes}

\* The dt apply_brake is tried with: any, up to a whole second.
BrakeDts == {3, 20, 60, 120, 600}

Inverted == Quat(0, 0, Micro, 0)

Rolled == Quat(0, 0, 6 * (Micro \div 10), 8 * (Micro \div 10))

\* Plane values the functions are applied to: below, on and above the floor;
\* cruising, diving and slower than 1.0; level, inverted and rolled; and the
\* throttle at either end of its range.
PlaneValues ==
    { [position |-> Vec3(0, y, 0), velocity |-> v, orientation |-> q,
       throttle |-> PlaneNew.throttle] :
        y \in {Centi, (5 * Centi) \div 2, 90 * Centi},
        v \in {Vec3(0, 0, -50 * Centi), Vec3(0, -20 * Centi, -30 * Centi), Vec3(30, -40, 0)},
        q \in {QuatIdentity, Inverted, Rolled} }
    \cup
    { [PlaneNew EXCEPT !.throttle = t] : t \in {ThrottleUnit \div 10, (14 * ThrottleUnit) \div 10} }

InitCalls ==
    /\ plane \in PlaneValues
    /\ camera = CameraNew
    /\ pc = "caller"
    /\ frame = 0
    /\ frame_time = 0
    /\ dt = 0
    /\ input = NoKeys
    /\ calls = <<>>
    /\ before = plane
    /\ locals = NoLocals(plane)

\* plane.update(dt, &input), for any input and any dt in the range
CallUpdate ==
    /\ pc = "caller"
    /\ frame < MaxCalls
    /\ \E d \in UpdateDts, keys \in KeySets :
        /\ dt' = d
        /\ input' = Gather(keys)
        /\ locals' = UpdateLocals(plane, d, Gather(keys))
        /\ plane' = locals'.plane
        /\ calls' = << <<"update", d>> >>
    /\ before' = plane
    /\ frame' = frame + 1
    /\ UNCHANGED <<camera, pc, frame_time>>

\* apply_brake(&mut plane, dt), for any dt
CallApplyBrake ==
    /\ pc = "caller"
    /\ frame < MaxCalls
    /\ \E d \in BrakeDts :
        /\ dt' = d
        /\ plane' = ApplyBrake(plane, d)
        /\ calls' = << <<"apply_brake", d>> >>
    /\ input' = NoKeys
    /\ locals' = NoLocals(plane')
    /\ before' = plane
    /\ frame' = frame + 1
    /\ UNCHANGED <<camera, pc, frame_time>>

NextCalls ==
    \/ CallUpdate
    \/ CallApplyBrake

\* Plane::update and apply_brake as functions of the Plane, the dt and the input.
SpecCalls == InitCalls /\ [][NextCalls]_vars

\* ------------------------------------------------------------------ claims

Zero3 == Vec3(0, 0, 0)

\* The last call made was Plane::update / apply_brake (SpecCalls keeps the last call).
UpdateCalled == calls = << <<"update", dt>> >>

BrakeCalled == calls = << <<"apply_brake", dt>> >>

CallName(i) == calls[i][1]

\* C1: after any update the throttle is within [0.1, 1.4].
C1_ThrottleInRange ==
    /\ 10 * plane.throttle >= ThrottleUnit
    /\ 10 * plane.throttle <= 14 * ThrottleUnit

\* The throttle is at 1.4, raise is held, and update leaves it at 1.4.
C1_Witness ==
    /\ UpdateCalled
    /\ 10 * before.throttle = 14 * ThrottleUnit
    /\ input.throttle_delta = 1
    /\ 10 * plane.throttle = 14 * ThrottleUnit

\* C2: from position.y < 2.5 with velocity.y < 0, one update leaves
\* position.y >= 2.5 and velocity.y >= 0.
C2_GroundFloor ==
    (UpdateCalled /\ 2 * before.position.y < 5 * Centi /\ before.velocity.y < 0)
        => (2 * plane.position.y >= 5 * Centi /\ plane.velocity.y >= 0)

\* Below the floor and diving, and after integration still below it and still
\* falling: the clamp has set both.
C2_Witness ==
    /\ UpdateCalled
    /\ 2 * before.position.y < 5 * Centi
    /\ before.velocity.y < 0
    /\ 2 * locals.integrated.position.y < 5 * Centi
    /\ locals.integrated.velocity.y < 0
    /\ 2 * plane.position.y = 5 * Centi
    /\ plane.velocity.y = 0

C4_KeepsFivePercent ==
    (BrakeCalled /\ FasterThanOne(before.velocity))
        => /\ plane.velocity # Zero3
           /\ 20 * Length(plane.velocity) + 20 >= Length(before.velocity)

\* C4, amended: one apply_brake at a speed above 1.0 keeps at most 95% of the
\* speed and never reverses a component; with dt >= 0.2 s it stops the aircraft;
\* with dt <= 1/30 s it keeps at least 5/6 of the speed.
C4_BrakeScaling ==
    (BrakeCalled /\ FasterThanOne(before.velocity))
        => LET a == Length(plane.velocity)
               b == Length(before.velocity)
           IN /\ 100 * a <= 95 * b + 200
              /\ (before.velocity.x >= 0) => (plane.velocity.x >= 0)
              /\ (before.velocity.x <= 0) => (plane.velocity.x <= 0)
              /\ (before.velocity.y >= 0) => (plane.velocity.y >= 0)
              /\ (before.velocity.y <= 0) => (plane.velocity.y <= 0)
              /\ (before.velocity.z >= 0) => (plane.velocity.z >= 0)
              /\ (before.velocity.z <= 0) => (plane.velocity.z <= 0)
              /\ (5 * dt >= TicksPerSec) => (plane.velocity = Zero3)
              /\ (30 * dt <= TicksPerSec) => (6 * a + 12 >= 5 * b)

\* apply_brake with dt = 0.2 s at a speed above 1.0 has stopped the aircraft.
C4_Witness ==
    /\ BrakeCalled
    /\ 5 * dt = TicksPerSec
    /\ FasterThanOne(before.velocity)
    /\ plane.velocity = Zero3

\* The first update of the run, with dt = 1/60 s and no key down.
FirstUpdateNeutral ==
    /\ pc = "brake"
    /\ frame = 0
    /\ 60 * dt = TicksPerSec
    /\ input = NoKeys

\* C5 as claimed: that update leaves position.y lower than 90.
C5_AltitudeDrops == FirstUpdateNeutral => plane.position.y < 90 * Centi

\* C5, amended: that update leaves position.y higher than 90, and the state is
\* what the formula gives once: velocity (0, 38.17, -57.07), position
\* (0, 90.64, -0.95), to a hundredth.
C5_AltitudeRises ==
    FirstUpdateNeutral
        => /\ plane.position.y > 90 * Centi
           /\ plane.velocity.x = 0
           /\ Abs(plane.velocity.y - 3817) <= 1
           /\ Abs(plane.velocity.z + 5707) <= 1
           /\ plane.position.x = 0
           /\ Abs(plane.position.y - 9064) <= 1
           /\ Abs(plane.position.z + 95) <= 1

C5_Witness == FirstUpdateNeutral /\ plane.position.y > 90 * Centi

\* C6 as claimed: every axis is 0 with both or neither key and in {-1, 0, 1}, and
\* for yaw, yaw_right alone gives +1 and yaw_left alone gives -1.
C6_YawRightPositive ==
    (pc = "brake")
        => /\ locals.yaw_input = AsNumber(input.yaw_right) - AsNumber(input.yaw_left)
           /\ locals.pitch_input \in {-1, 0, 1}
           /\ locals.roll_input \in {-1, 0, 1}

\* C6, amended: every axis is in {-1, 0, 1} and is 0 with both or neither key;
\* for yaw, yaw_left alone gives +1 and yaw_right alone gives -1 (pitch_up and
\* roll_right are the positive keys of theirs); from the identity orientation
\* yaw_left alone turns the nose to the left.
C6_YawLeftPositive ==
    (pc = "brake")
        => /\ {locals.yaw_input, locals.pitch_input, locals.roll_input} \subseteq {-1, 0, 1}
           /\ (input.yaw_left = input.yaw_right) => (locals.yaw_input = 0)
           /\ (input.yaw_left /\ ~input.yaw_right) => (locals.yaw_input = 1)
           /\ (input.yaw_right /\ ~input.yaw_left) => (locals.yaw_input = -1)
           /\ (input.pitch_up = input.pitch_down) => (locals.pitch_input = 0)
           /\ (input.pitch_up /\ ~input.pitch_down) => (locals.pitch_input = 1)
           /\ (input.pitch_down /\ ~input.pitch_up) => (locals.pitch_input = -1)
           /\ (input.roll_left = input.roll_right) => (locals.roll_input = 0)
           /\ (input.roll_right /\ ~input.roll_left) => (locals.roll_input = 1)
           /\ (input.roll_left /\ ~input.roll_right) => (locals.roll_input = -1)
           /\ (frame = 0 /\ input.yaw_left /\ ~input.yaw_right)
                  => (plane.orientation.y > 0 /\ Forward(plane.orientation).x < 0)

\* An update with yaw_left alone held.
C6_Witness ==
    /\ pc = "brake"
    /\ input.yaw_left
    /\ ~input.yaw_right
    /\ locals.yaw_input = 1
    /\ plane.orientation.y > 0

\* C7: the orientation has norm 1 within 1e-5 after every update.
C7_UnitNorm ==
    LET n == QuatLengthSquared(plane.orientation)
    IN /\ BigLeq(BigSq(Micro - 10), n)
       /\ BigLeq(n, BigSq(Micro + 10))

\* A second update that pitches and rolls an orientation already turned.
C7_Witness ==
    /\ pc = "brake"
    /\ frame = 1
    /\ before.orientation # QuatIdentity
    /\ locals.pitch_input # 0
    /\ locals.roll_input # 0
    /\ plane.orientation # before.orientation

\* C8: whatever the frame time, the dt passed to update and to apply_brake is the
\* same value, within [1/200, 1/30] s.
C8_DtClamped ==
    \A i \in DOMAIN calls :
        (CallName(i) \in {"update", "apply_brake"})
            => /\ calls[i][2] = dt
               /\ 200 * calls[i][2] >= TicksPerSec
               /\ 30 * calls[i][2] <= TicksPerSec

\* A frame the platform reports as one second long, with brake held: both calls
\* were made with 1/30 s.
C8_Witness ==
    /\ pc = "camera"
    /\ frame_time = TicksPerSec
    /\ Len(calls) = 2
    /\ CallName(1) = "update"
    /\ CallName(2) = "apply_brake"
    /\ 30 * calls[2][2] = TicksPerSec

\* C9: apply_brake runs in a frame iff brake is set, after update and before the
\* camera is derived; without brake the frame ends in the state update left.
C9_BrakeIffHeld ==
    (pc \in {"draw", "next_frame"})
        => /\ Len(calls) = IF input.brake THEN 3 ELSE 2
           /\ CallName(1) = "update"
           /\ input.brake => CallName(2) = "apply_brake"
           /\ CallName(Len(calls)) = "update_camera"
           /\ (~input.brake) => (plane = locals.plane)
           /\ camera = UpdateCamera(plane, input)

\* A frame with brake held, ended in a state other than the one update left.
C9_Witness ==
    /\ pc = "next_frame"
    /\ input.brake
    /\ Len(calls) = 3
    /\ plane # locals.plane

\* C10: when the position after integration is below 2.5 the clamp sets
\* position.y to 2.5 and a negative velocity.y to 0 and nothing else; when it is
\* not, the clamp changes nothing.
C10_ClampFrame ==
    UpdateCalled
        => LET s == locals.integrated
           IN IF 2 * s.position.y < 5 * Centi
              THEN /\ 2 * plane.position.y = 5 * Centi
                   /\ plane.position.x = s.position.x
                   /\ plane.position.z = s.position.z
                   /\ plane.velocity.x = s.velocity.x
                   /\ plane.velocity.z = s.velocity.z
                   /\ plane.velocity.y = IF s.velocity.y < 0 THEN 0 ELSE s.velocity.y
              ELSE /\ plane.position = s.position
                   /\ plane.velocity = s.velocity

\* The clamp fired on a climbing aircraft: the upward velocity is kept.
C10_Witness ==
    /\ UpdateCalled
    /\ 2 * locals.integrated.position.y < 5 * Centi
    /\ locals.integrated.velocity.y > 0
    /\ plane.velocity = locals.integrated.velocity
    /\ plane.velocity.x # 0

====
